---- MODULE Spec2Model ----
(***************************************************************************)
(* A model of seaqs: typed filter sets, their deserialization from a       *)
(* bracket-syntax query string, their compilation into sea_query           *)
(* conditions, and the QueryFilter envelope applied to a statement.        *)
(*                                                                         *)
(* Six specifications share the module.  Five follow the stages of a       *)
(* request; Spec puts the operations that only read their input side by    *)
(* side:                                                                   *)
(*   SpecSet    building a filter set with push and compiling it,          *)
(*   SpecDe     deserializing one field / a filter-group from query pairs, *)
(*   SpecGroup  compiling a filter-group and attaching it with apply_conds,*)
(*   SpecQuery  the envelope accessors and apply_filters,                  *)
(*   SpecEnv    deserializing the envelope and applying it,                *)
(*   Spec       to_cond, the envelope accessors and apply_filters.         *)
(***************************************************************************)
EXTENDS Integers, Sequences, FiniteSets, TLC

VARIABLES
    domain,     \* the value domain of the filter set under construction
    fset,       \* the Vec<...Filter> inside the filter set (self.0)
    ret,        \* the last to_cond call on a filter / set / slot: its argument and result
    query,      \* the (field, token, raw value) pairs of the query string
    de,         \* the result of the last deserialization of `query`
    envelope,   \* the QueryFilter: start, end, sort, order, filter
    call,       \* the last envelope accessor call: its name, argument and result
    stmt        \* the statement produced by the last apply_filters

vars == <<domain, fset, ret, query, de, envelope, call, stmt>>

(***************************************************************************)
(* Bounds of the model.                                                    *)
(***************************************************************************)
MaxVal == 2     \* operands and column values of the ordered domains are 0..MaxVal
MaxPush == 2    \* pushes onto one filter set
MaxList == 2    \* length of the operand list of an identifier In

Vals == 0 .. MaxVal

(***************************************************************************)
(* Option<T>.                                                              *)
(***************************************************************************)
None == [some |-> FALSE]
Some(v) == [some |-> TRUE, val |-> v]

RECURSIVE SeqsUpTo(_, _)
SeqsUpTo(S, n) ==
    IF n = 0 THEN {<<>>}
    ELSE LET shorter == SeqsUpTo(S, n - 1)
         IN  shorter \cup {Append(s, x) : s \in {t \in shorter : Len(t) = n - 1}, x \in S}

(***************************************************************************)
(* The operator enums.  An operator instance is a record: op is the        *)
(* variant, and the operand is val (a date, datetime, number or uuid,      *)
(* abstracted to a point of an ordered / discrete scale), text (a string,  *)
(* as its characters) or list (the Vec<Uuid> of In).                       *)
(***************************************************************************)
Domains == {"date", "datetime", "datetime_tz", "number", "string", "uuid"}
TemporalDomains == {"date", "datetime", "datetime_tz"}

DateFilter == [op : {"Before", "After", "Equals", "NotEquals"}, val : Vals]
DateTimeFilter == [op : {"Before", "After", "Equals", "NotEquals"}, val : Vals]
DateTimeTzFilter == [op : {"Before", "After", "Equals", "NotEquals"}, val : Vals]
NumberFilter ==
    [op : {"Equals", "NotEquals", "LesserThan", "LesserThanEqual",
           "GreaterThan", "GreaterThanEqual"}, val : Vals]

\* Text operands: the empty string, plain text, a lone wildcard character,
\* and text holding one.
StrOperands == {<<>>, <<"a">>, <<"%">>, <<"a", "%">>}
StringFilter ==
    [op : {"Contains", "NotContains", "StartsWith", "EndsWith"}, text : StrOperands]

Uuids == {0, 1}
UuidFilter ==
    [op : {"Equals"}, val : Uuids] \cup [op : {"In"}, list : SeqsUpTo(Uuids, MaxList)]

FilterOf(d) ==
    CASE d = "date" -> DateFilter
      [] d = "datetime" -> DateTimeFilter
      [] d = "datetime_tz" -> DateTimeTzFilter
      [] d = "number" -> NumberFilter
      [] d = "string" -> StringFilter
      [] d = "uuid" -> UuidFilter

(***************************************************************************)
(* sea_query expressions and conditions, as the code builds them.          *)
(***************************************************************************)
Cmp(col, op, v) == [kind |-> "cmp", col |-> col, op |-> op, val |-> v]
Like(col, neg, pat) == [kind |-> "like", col |-> col, neg |-> neg, pat |-> pat]
IsIn(col, l) == [kind |-> "in", col |-> col, list |-> l]

\* Cond::all()
Cond_all == [kind |-> "all", conds |-> <<>>]

Cond_add_Flatten(c, child) ==
    IF child.kind = "all"
    THEN [c EXCEPT !.conds = @ \o child.conds]
    ELSE [c EXCEPT !.conds = Append(@, child)]

\* Cond::add: a child that is itself a junction of exactly one expression is
\* added as that expression; anything else is added as it is.
Cond_add(c, child) ==
    IF child.kind = "all" /\ Len(child.conds) = 1
    THEN [c EXCEPT !.conds = Append(@, child.conds[1])]
    ELSE [c EXCEPT !.conds = Append(@, child)]

\* SimpleExpr::into_condition: the junction holding the one expression.
into_condition(e) == [kind |-> "all", conds |-> <<e>>]

(***************************************************************************)
(* impl ToFieldCond for each operator enum: one instance, one predicate.   *)
(***************************************************************************)
DateFilter_to_cond_BeforeInclusive(f, col) ==
    Some(into_condition(
        CASE f.op = "Equals" -> Cmp(col, "=", f.val)
          [] f.op = "NotEquals" -> Cmp(col, "<>", f.val)
          [] f.op = "Before" -> Cmp(col, "<=", f.val)
          [] f.op = "After" -> Cmp(col, ">=", f.val)))

DateFilter_to_cond(f, col) ==
    Some(into_condition(
        CASE f.op = "Equals" -> Cmp(col, "=", f.val)
          [] f.op = "NotEquals" -> Cmp(col, "<>", f.val)
          [] f.op = "Before" -> Cmp(col, "<", f.val)
          [] f.op = "After" -> Cmp(col, ">=", f.val)))

DateTimeFilter_to_cond(f, col) ==
    Some(into_condition(
        CASE f.op = "Equals" -> Cmp(col, "=", f.val)
          [] f.op = "NotEquals" -> Cmp(col, "<>", f.val)
          [] f.op = "Before" -> Cmp(col, "<", f.val)
          [] f.op = "After" -> Cmp(col, ">=", f.val)))

DateTimeTzFilter_to_cond(f, col) ==
    Some(into_condition(
        CASE f.op = "Equals" -> Cmp(col, "=", f.val)
          [] f.op = "NotEquals" -> Cmp(col, "<>", f.val)
          [] f.op = "Before" -> Cmp(col, "<", f.val)
          [] f.op = "After" -> Cmp(col, ">=", f.val)))

NumberFilter_to_cond_LteStrict(f, col) ==
    Some(into_condition(
        CASE f.op = "Equals" -> Cmp(col, "=", f.val)
          [] f.op = "NotEquals" -> Cmp(col, "<>", f.val)
          [] f.op = "LesserThan" -> Cmp(col, "<", f.val)
          [] f.op = "LesserThanEqual" -> Cmp(col, "<", f.val)
          [] f.op = "GreaterThan" -> Cmp(col, ">", f.val)
          [] f.op = "GreaterThanEqual" -> Cmp(col, ">=", f.val)))

NumberFilter_to_cond(f, col) ==
    Some(into_condition(
        CASE f.op = "Equals" -> Cmp(col, "=", f.val)
          [] f.op = "NotEquals" -> Cmp(col, "<>", f.val)
          [] f.op = "GreaterThan" -> Cmp(col, ">", f.val)
          [] f.op = "GreaterThanEqual" -> Cmp(col, ">=", f.val)
          [] f.op = "LesserThan" -> Cmp(col, "<", f.val)
          [] f.op = "LesserThanEqual" -> Cmp(col, "<=", f.val)))

StringFilter_to_cond_StartsWithBothEnds(f, col) ==
    Some(into_condition(
        CASE f.op = "Contains" -> Like(col, FALSE, <<"%">> \o f.text \o <<"%">>)
          [] f.op = "NotContains" -> Like(col, TRUE, <<"%">> \o f.text \o <<"%">>)
          [] f.op = "StartsWith" -> Like(col, FALSE, <<"%">> \o f.text \o <<"%">>)
          [] f.op = "EndsWith" -> Like(col, FALSE, <<"%">> \o f.text)))

StringFilter_to_cond(f, col) ==
    Some(into_condition(
        CASE f.op = "Contains" -> Like(col, FALSE, <<"%">> \o f.text \o <<"%">>)
          [] f.op = "NotContains" -> Like(col, TRUE, <<"%">> \o f.text \o <<"%">>)
          [] f.op = "StartsWith" -> Like(col, FALSE, f.text \o <<"%">>)
          [] f.op = "EndsWith" -> Like(col, FALSE, <<"%">> \o f.text)))

UuidFilter_to_cond_Dedup(f, col) ==
    Some(into_condition(
        CASE f.op = "Equals" -> Cmp(col, "=", f.val)
          [] f.op = "In" ->
               IsIn(col, IF Len(f.list) >= 2 /\ f.list[1] = f.list[2]
                         THEN Tail(f.list) ELSE f.list)))

UuidFilter_to_cond(f, col) ==
    Some(into_condition(
        CASE f.op = "Equals" -> Cmp(col, "=", f.val)
          [] f.op = "In" -> IsIn(col, f.list)))

\* filter.to_cond(col_ref.clone()), dispatched on the element type of the Vec.
Filter_to_cond(d, f, col) ==
    CASE d = "date" -> DateFilter_to_cond(f, col)
      [] d = "datetime" -> DateTimeFilter_to_cond(f, col)
      [] d = "datetime_tz" -> DateTimeTzFilter_to_cond(f, col)
      [] d = "number" -> NumberFilter_to_cond(f, col)
      [] d = "string" -> StringFilter_to_cond(f, col)
      [] d = "uuid" -> UuidFilter_to_cond(f, col)

(***************************************************************************)
(* impl ToFieldCond for each filter set: the loop over self.0.  The six    *)
(* impls are the same text; FilterSet_loop is the loop from element i on,  *)
(* conds being the junction built so far.                                  *)
(***************************************************************************)
RECURSIVE FilterSet_loop_SkipRepeated(_, _, _, _, _)
FilterSet_loop_SkipRepeated(d, set, col, i, conds) ==
    IF i > Len(set) THEN conds
    ELSE LET r == Filter_to_cond(d, set[i], col)
         IN  FilterSet_loop_SkipRepeated(d, set, col, i + 1,
                 IF r.some /\ \A j \in 1 .. (i - 1) : set[j] # set[i]
                 THEN Cond_add(conds, r.val) ELSE conds)

RECURSIVE FilterSet_loop(_, _, _, _, _)
FilterSet_loop(d, set, col, i, conds) ==
    IF i > Len(set) THEN conds
    ELSE LET r == Filter_to_cond(d, set[i], col)
         IN  FilterSet_loop(d, set, col, i + 1,
                 IF r.some THEN Cond_add(conds, r.val) ELSE conds)

DateFilterSet_to_cond(set, col) == Some(FilterSet_loop("date", set, col, 1, Cond_all))
DateTimeFilterSet_to_cond(set, col) == Some(FilterSet_loop("datetime", set, col, 1, Cond_all))
DateTimeTzFilterSet_to_cond(set, col) == Some(FilterSet_loop("datetime_tz", set, col, 1, Cond_all))
NumberFilterSet_to_cond(set, col) == Some(FilterSet_loop("number", set, col, 1, Cond_all))
StringFilterSet_to_cond(set, col) == Some(FilterSet_loop("string", set, col, 1, Cond_all))
UuidFilterSet_to_cond(set, col) == Some(FilterSet_loop("uuid", set, col, 1, Cond_all))

FilterSet_to_cond(d, set, col) ==
    CASE d = "date" -> DateFilterSet_to_cond(set, col)
      [] d = "datetime" -> DateTimeFilterSet_to_cond(set, col)
      [] d = "datetime_tz" -> DateTimeTzFilterSet_to_cond(set, col)
      [] d = "number" -> NumberFilterSet_to_cond(set, col)
      [] d = "string" -> StringFilterSet_to_cond(set, col)
      [] d = "uuid" -> UuidFilterSet_to_cond(set, col)

\* impl ToFieldCond for Option<T>: a slot of a filter-group.
Option_to_cond(d, slot, col) ==
    IF slot.some THEN FilterSet_to_cond(d, slot.val, col) ELSE None

(***************************************************************************)
(* The filter set: push and is_empty.                                      *)
(***************************************************************************)
FilterSet_default == <<>>
FilterSet_push_Dedup(set, value) ==
    IF \E i \in 1 .. Len(set) : set[i] = value THEN set ELSE Append(set, value)
FilterSet_push(set, value) == Append(set, value)
FilterSet_is_empty(set) == Len(set) = 0

(***************************************************************************)
(* SpecSet: a filter set of some domain is built by pushes and compiled.   *)
(***************************************************************************)
Col == "aspect"
NoRet == [fn |-> "none"]

NoDe == [state |-> "none"]
NoEnvelope == [state |-> "none"]
NoCall == [fn |-> "none"]
NoStmt == [state |-> "none"]

InitSet ==
    /\ domain \in Domains
    /\ fset = FilterSet_default
    /\ ret = NoRet
    /\ query = <<>>
    /\ de = NoDe
    /\ envelope = NoEnvelope
    /\ call = NoCall
    /\ stmt = NoStmt

Push ==
    /\ Len(fset) < MaxPush
    /\ \E value \in FilterOf(domain) : fset' = FilterSet_push(fset, value)
    /\ UNCHANGED <<domain, ret, query, de, envelope, call, stmt>>

\* to_cond on one operator instance held by the set
FieldToCond ==
    /\ \E i \in 1 .. Len(fset) :
         ret' = [fn |-> "filter", arg |-> <<fset[i]>>,
                 result |-> Filter_to_cond(domain, fset[i], Col)]
    /\ UNCHANGED <<domain, fset, query, de, envelope, call, stmt>>

SetToCond_Drains ==
    /\ ret' = [fn |-> "set", arg |-> fset, result |-> FilterSet_to_cond(domain, fset, Col)]
    /\ fset' = FilterSet_default
    /\ UNCHANGED <<domain, query, de, envelope, call, stmt>>

\* to_cond on the set
SetToCond ==
    /\ ret' = [fn |-> "set", arg |-> fset, result |-> FilterSet_to_cond(domain, fset, Col)]
    /\ UNCHANGED <<domain, fset, query, de, envelope, call, stmt>>

\* to_cond on a filter-group slot holding the set, or holding nothing
SlotToCond ==
    /\ \E slot \in {None, Some(fset)} :
         ret' = [fn |-> IF slot.some THEN "slot_some" ELSE "slot_none",
                 arg |-> IF slot.some THEN slot.val ELSE <<>>,
                 result |-> Option_to_cond(domain, slot, Col)]
    /\ UNCHANGED <<domain, fset, query, de, envelope, call, stmt>>

NextSet == Push \/ FieldToCond \/ SetToCond \/ SlotToCond

SpecSet == InitSet /\ [][NextSet]_vars

(***************************************************************************)
(* Deserialization.  A query string is a sequence of pairs                 *)
(* field[token]=raw; a raw value is the characters the request supplied.   *)
(***************************************************************************)
MaxPairs == 3        \* pairs of one field, all with tokens of the field's domain
MaxAnyPairs == 2     \* pairs of one field, tokens of any domain or of none
MaxGroupPairs == 2   \* pairs of a query string addressed to a filter-group

Pair(fld, tok, raw) == [field |-> fld, token |-> tok, raw |-> raw]

\* #[serde(rename = ...)] / #[serde(rename_all = "lowercase")]: the token of
\* each variant, per enum.
DateFilter_tokens ==
    [before |-> "Before", after |-> "After", eq |-> "Equals", neq |-> "NotEquals"]
DateTimeFilter_tokens ==
    [before |-> "Before", after |-> "After", eq |-> "Equals", neq |-> "NotEquals"]
DateTimeTzFilter_tokens ==
    [before |-> "Before", after |-> "After", eq |-> "Equals", neq |-> "NotEquals"]
NumberFilter_tokens ==
    [eq |-> "Equals", neq |-> "NotEquals", lt |-> "LesserThan",
     lte |-> "LesserThanEqual", gt |-> "GreaterThan", gte |-> "GreaterThanEqual"]
StringFilter_tokens ==
    [contains |-> "Contains", notcontains |-> "NotContains",
     startswith |-> "StartsWith", endswith |-> "EndsWith"]
UuidFilter_tokens == [eq |-> "Equals", in |-> "In"]

TokensOf_AcceptsNumberTokens(d) ==
    CASE d = "date" -> DateFilter_tokens
      [] d = "datetime" -> DateTimeFilter_tokens
      [] d = "datetime_tz" -> DateTimeTzFilter_tokens
      [] d = "number" -> NumberFilter_tokens
      [] d = "string" ->
           [contains |-> "Contains", notcontains |-> "NotContains",
            startswith |-> "StartsWith", endswith |-> "EndsWith", lt |-> "StartsWith"]
      [] d = "uuid" -> UuidFilter_tokens

TokensOf(d) ==
    CASE d = "date" -> DateFilter_tokens
      [] d = "datetime" -> DateTimeFilter_tokens
      [] d = "datetime_tz" -> DateTimeTzFilter_tokens
      [] d = "number" -> NumberFilter_tokens
      [] d = "string" -> StringFilter_tokens
      [] d = "uuid" -> UuidFilter_tokens

\* The keyed map the bracket parser keeps for one field orders its keys
\* bytewise; TokenOrder lists the tokens of the model in that order.
TokenOrder ==
    <<"after", "before", "bogus", "contains", "endswith", "eq", "gt", "gte",
      "in", "lt", "lte", "neq", "notcontains", "startswith">>
AllTokens == {TokenOrder[i] : i \in 1 .. Len(TokenOrder)}

\* Parsing a raw value as a decimal number (i64::from_str on digits).
Digits == <<"0", "1", "2", "3", "4", "5", "6", "7", "8", "9">>
IsDigit(c) == \E i \in 1 .. 10 : Digits[i] = c
DigitVal(c) == (CHOOSE i \in 1 .. 10 : Digits[i] = c) - 1

RECURSIVE DecimalValue(_, _, _)
DecimalValue(raw, i, acc) ==
    IF i > Len(raw) THEN acc ELSE DecimalValue(raw, i + 1, acc * 10 + DigitVal(raw[i]))

ParseNumber(raw) ==
    IF Len(raw) > 0 /\ \A i \in 1 .. Len(raw) : IsDigit(raw[i])
    THEN Some(DecimalValue(raw, 1, 0))
    ELSE None

\* The operand of one variant from one raw value.  Text is kept as it is;
\* a number is parsed; a date, datetime or uuid is parsed by chrono / uuid,
\* whose textual syntax is abstracted: a well-formed raw value is a digit
\* string naming the point of the scale, anything else is malformed.
ParseOperand(d, op, raw) ==
    IF d = "string" THEN Some([op |-> op, text |-> raw])
    ELSE LET n == ParseNumber(raw)
         IN  IF n.some THEN Some([op |-> op, val |-> n.val]) ELSE None

\* Vec<Uuid> of In: every value of the key, in the order supplied.
RECURSIVE ParseList(_, _, _)
ParseList(raws, i, acc) ==
    IF i > Len(raws) THEN Some(acc)
    ELSE LET n == ParseNumber(raws[i])
         IN  IF n.some THEN ParseList(raws, i + 1, Append(acc, n.val)) ELSE None

Keys(pairs) == {pairs[i].token : i \in 1 .. Len(pairs)}

RECURSIVE ValuesOf(_, _, _, _)
ValuesOf(pairs, key, i, acc) ==
    IF i > Len(pairs) THEN acc
    ELSE ValuesOf(pairs, key, i + 1,
                  IF pairs[i].token = key THEN Append(acc, pairs[i].raw) ELSE acc)

RECURSIVE SortedKeys(_, _, _)
SortedKeys(keys, i, acc) ==
    IF i > Len(TokenOrder) THEN acc
    ELSE SortedKeys(keys, i + 1,
                    IF TokenOrder[i] \in keys THEN Append(acc, TokenOrder[i]) ELSE acc)

\* One entry per pair, in the order of the input: no grouping, no ordering.
Brackets_entries_PerPair(pairs) ==
    [i \in 1 .. Len(pairs) |-> [key |-> pairs[i].token, values |-> <<pairs[i].raw>>]]

RECURSIVE FirstSeenKeys(_, _, _)
FirstSeenKeys(pairs, i, acc) ==
    IF i > Len(pairs) THEN acc
    ELSE FirstSeenKeys(pairs, i + 1,
             IF \E j \in 1 .. Len(acc) : acc[j] = pairs[i].token
             THEN acc ELSE Append(acc, pairs[i].token))

\* One entry per distinct key, in the order the keys first occur in the input.
Brackets_entries_InputOrder(pairs) ==
    LET ks == FirstSeenKeys(pairs, 1, <<>>)
    IN  [i \in 1 .. Len(ks) |-> [key |-> ks[i], values |-> ValuesOf(pairs, ks[i], 1, <<>>)]]

\* The map entries the bracket parser hands to the EnumMap adapter for one
\* field: one entry per distinct key, keys in bytewise order, each with all
\* the values supplied for it in input order.
Brackets_entries(pairs) ==
    LET ks == SortedKeys(Keys(pairs), 1, <<>>)
    IN  [i \in 1 .. Len(ks) |-> [key |-> ks[i], values |-> ValuesOf(pairs, ks[i], 1, <<>>)]]

\* Which of the values of a repeated key a single-operand variant is built
\* from is decided by the bracket parser, not by this repository: every
\* choice is an outcome.  A pick names one value per entry.
RECURSIVE Picks(_, _)
Picks(entries, i) ==
    IF i > Len(entries) THEN {<<>>}
    ELSE {<<k>> \o rest : k \in 1 .. Len(entries[i].values), rest \in Picks(entries, i + 1)}

DeErr == [state |-> "done", ok |-> FALSE]
DeSet(set) == [state |-> "done", ok |-> TRUE, set |-> set]
DeGroup(g) == [state |-> "done", ok |-> TRUE, group |-> g]

\* serde_with EnumMap over the derived enum: each map entry becomes one
\* variant, its key being the variant's token; an unknown token is an
\* error, and so is an operand that does not parse.
RECURSIVE EnumMap_visit(_, _, _, _, _)
EnumMap_visit(d, entries, pick, i, acc) ==
    IF i > Len(entries) THEN DeSet(acc)
    ELSE LET e == entries[i]
             table == TokensOf(d)
         IN  IF e.key \notin DOMAIN table THEN DeErr
             ELSE LET op == table[e.key]
                      operand ==
                          IF d = "uuid" /\ op = "In"
                          THEN LET l == ParseList(e.values, 1, <<>>)
                               IN  IF l.some THEN Some([op |-> op, list |-> l.val]) ELSE None
                          ELSE ParseOperand(d, op, e.values[pick[i]])
                  IN  IF operand.some
                      THEN EnumMap_visit(d, entries, pick, i + 1, Append(acc, operand.val))
                      ELSE DeErr

\* Deserialize for a filter set of domain d from the pairs of its field:
\* the outcomes.
FilterSet_deserialize(d, pairs) ==
    LET entries == Brackets_entries(pairs)
    IN  {EnumMap_visit(d, entries, pick, 1, <<>>) : pick \in Picks(entries, 1)}

\* struct Sample { key: <filter set> } of the deserialize tests: the field is
\* not optional, so a query string without it is an error.
Sample_from_str(d, q) ==
    IF Len(q) = 0 THEN {DeErr} ELSE FilterSet_deserialize(d, q)

(***************************************************************************)
(* The filter-group of the crate's tests: struct MyFilters { name, age,    *)
(* score }, each an Option of a filter set, in this declared order.        *)
(***************************************************************************)
MyFilters_fields ==
    <<[name |-> "name", domain |-> "string"],
      [name |-> "age", domain |-> "number"],
      [name |-> "score", domain |-> "number"]>>

RECURSIVE FieldPairs(_, _, _, _)
FieldPairs(q, fld, i, acc) ==
    IF i > Len(q) THEN acc
    ELSE FieldPairs(q, fld, i + 1, IF q[i].field = fld THEN Append(acc, q[i]) ELSE acc)

\* One Option<filter set> slot: None when the field is absent from the input.
Slot_deserialize(d, pairs) ==
    IF Len(pairs) = 0 THEN {DeSet(<<>>) @@ [absent |-> TRUE]}
    ELSE FilterSet_deserialize(d, pairs)

SlotValue(r) == IF "absent" \in DOMAIN r THEN None ELSE Some(r.set)

\* A deserializer that keeps the fields that deserialize and leaves the
\* failing ones empty.
MyFilters_from_str_Partial(q) ==
    {DeGroup([name |-> IF n.ok THEN SlotValue(n) ELSE None,
              age |-> IF a.ok THEN SlotValue(a) ELSE None,
              score |-> IF sc.ok THEN SlotValue(sc) ELSE None]) :
        n \in Slot_deserialize("string", FieldPairs(q, "name", 1, <<>>)),
        a \in Slot_deserialize("number", FieldPairs(q, "age", 1, <<>>)),
        sc \in Slot_deserialize("number", FieldPairs(q, "score", 1, <<>>))}

\* #[derive(Deserialize)] struct MyFilters: every field deserializes or the
\* whole call is an error.
MyFilters_from_str(q) ==
    {IF n.ok /\ a.ok /\ sc.ok
     THEN DeGroup([name |-> SlotValue(n), age |-> SlotValue(a), score |-> SlotValue(sc)])
     ELSE DeErr :
        n \in Slot_deserialize("string", FieldPairs(q, "name", 1, <<>>)),
        a \in Slot_deserialize("number", FieldPairs(q, "age", 1, <<>>)),
        sc \in Slot_deserialize("number", FieldPairs(q, "score", 1, <<>>))}

\* impl ToCond for MyFilters
MyFilters_to_cond_AgeFirst(g) ==
    LET c0 == Cond_all
        a == Option_to_cond("number", g.age, "age")
        c1 == IF a.some THEN Cond_add(c0, a.val) ELSE c0
        n == Option_to_cond("string", g.name, "name")
        c2 == IF n.some THEN Cond_add(c1, n.val) ELSE c1
        sc == Option_to_cond("number", g.score, "score")
        c3 == IF sc.some THEN Cond_add(c2, sc.val) ELSE c2
    IN  c3

MyFilters_to_cond(g) ==
    LET c0 == Cond_all
        n == Option_to_cond("string", g.name, "name")
        c1 == IF n.some THEN Cond_add(c0, n.val) ELSE c0
        a == Option_to_cond("number", g.age, "age")
        c2 == IF a.some THEN Cond_add(c1, a.val) ELSE c1
        sc == Option_to_cond("number", g.score, "score")
        c3 == IF sc.some THEN Cond_add(c2, sc.val) ELSE c2
    IN  c3

(***************************************************************************)
(* SpecDe: a query string is deserialized into one field's filter set (the *)
(* Sample struct of the tests, for every domain) or into the filter-group, *)
(* and the result is compiled.                                             *)
(***************************************************************************)
GoodRaws == {<<"1", "0", "0">>, <<"5", "0">>}
BadRaw == <<"x">>

\* pairs whose token belongs to the domain and whose operand is well formed
ValidPairs(d) == {Pair("key", t, r) : t \in DOMAIN TokensOf(d), r \in GoodRaws}
\* pairs with any token of any domain, or of none
AnyPairs == {Pair("key", t, <<"5", "0">>) : t \in AllTokens}
\* pairs addressed to the filter-group
GroupTokens == {"contains", "lt", "gte", "bogus"}
GroupPairs ==
    {Pair(f, t, r) : f \in {"name", "age", "score"}, t \in GroupTokens,
                     r \in GoodRaws \cup {BadRaw}}

\* the query strings of the crate's tests and of its specification
ExampleNumber ==
    <<Pair("key", "lt", <<"1", "0", "0">>), Pair("key", "gt", <<"5", "0">>),
      Pair("key", "eq", <<"7", "5">>)>>
ExampleUuid ==
    <<Pair("key", "in", <<"7">>), Pair("key", "in", <<"7">>), Pair("key", "eq", <<"7">>)>>
ExampleGroup ==
    <<Pair("age", "lt", <<"5", "0">>), Pair("age", "gte", <<"2", "0">>),
      Pair("name", "contains", <<"J", "o", "h", "n">>)>>

InitDe ==
    /\ \/ \E d \in Domains : domain = d /\ query \in SeqsUpTo(ValidPairs(d), MaxPairs)
       \/ domain \in Domains /\ query \in SeqsUpTo(AnyPairs, MaxAnyPairs)
       \/ domain = "number" /\ query = ExampleNumber
       \/ domain = "uuid" /\ query = ExampleUuid
       \/ domain = "group" /\ query \in SeqsUpTo(GroupPairs, MaxGroupPairs) \cup {ExampleGroup}
    /\ de = NoDe
    /\ fset = FilterSet_default
    /\ ret = NoRet
    /\ envelope = NoEnvelope
    /\ call = NoCall
    /\ stmt = NoStmt

DeserializeSample ==
    /\ domain \in Domains
    /\ de = NoDe
    /\ de' \in Sample_from_str(domain, query)
    /\ UNCHANGED <<domain, fset, ret, query, envelope, call, stmt>>

DeserializeGroup ==
    /\ domain = "group"
    /\ de = NoDe
    /\ de' \in MyFilters_from_str(query)
    /\ UNCHANGED <<domain, fset, ret, query, envelope, call, stmt>>

CompileSample ==
    /\ domain \in Domains
    /\ de.state = "done" /\ de.ok
    /\ ret' = [fn |-> "set", arg |-> de.set, result |-> FilterSet_to_cond(domain, de.set, Col)]
    /\ UNCHANGED <<domain, fset, query, de, envelope, call, stmt>>

CompileGroup ==
    /\ domain = "group"
    /\ de.state = "done" /\ de.ok
    /\ ret' = [fn |-> "group", group |-> de.group, result |-> MyFilters_to_cond(de.group)]
    /\ UNCHANGED <<domain, fset, query, de, envelope, call, stmt>>

NextDe == DeserializeSample \/ DeserializeGroup \/ CompileSample \/ CompileGroup

SpecDe == InitDe /\ [][NextDe]_vars

(***************************************************************************)
(* The QueryFilter envelope.  start and end are Option<i32>; i32            *)
(* arithmetic is modelled at its width.                                    *)
(***************************************************************************)
MaxI32 == 2147483647
MinI32 == -MaxI32 - 1

\* whether the mathematical a - b leaves the i32 range
SubOverflows(a, b) ==
    IF b >= 0 THEN a < MinI32 + b ELSE a > MaxI32 + b

\* a - b modulo 2^32, as a release build computes it
WrappingSub(a, b) ==
    IF ~SubOverflows(a, b) THEN a - b
    ELSE IF b >= 0 THEN (((a - MinI32) - b) + MaxI32) + 1
    ELSE (((a - MaxI32) - 1) - b) + MinI32

Max(a, b) == IF a >= b THEN a ELSE b

\* the outcome of a call that may overflow: a build with overflow checks
\* panics, a build without them returns the wrapped value
Panicked == [panic |-> TRUE]
Returned(v) == [panic |-> FALSE, val |-> v]

get_offset_Clamped(env) ==
    IF env.start.some THEN Max(env.start.val, 0) ELSE 0

\* QueryFilter::get_offset
get_offset(env) ==
    IF env.start.some THEN env.start.val ELSE 0

\* QueryFilter::get_limit: the outcomes
get_limit(env, offset) ==
    IF env.end.some
    THEN IF SubOverflows(env.end.val, offset)
         THEN {Panicked, Returned(Max(WrappingSub(env.end.val, offset), 1))}
         ELSE {Returned(Max(env.end.val - offset, 1))}
    ELSE {Returned(10)}

\* const SORTABLE_FIELDS of the filter-group
SORTABLE_FIELDS == <<"name", "age", "score">>

validate_sortable_field_PassThrough(field) == Some(field)

RECURSIVE validate_loop(_, _)
validate_loop(field, i) ==
    IF i > Len(SORTABLE_FIELDS) THEN None
    ELSE IF SORTABLE_FIELDS[i] = field THEN Some(SORTABLE_FIELDS[i])
    ELSE validate_loop(field, i + 1)

\* Filter::get_max_limit, which MyFilters repeats; nothing in the crate calls it
get_max_limit == 100

\* Filter::validate_sortable_field
validate_sortable_field(field) == validate_loop(field, 1)

get_sort_Unvalidated(env) == env.sort

\* QueryFilter::get_sort
get_sort(env) ==
    IF env.sort.some THEN validate_sortable_field(env.sort.val) ELSE None

\* str::to_ascii_uppercase, on the characters of the string
LowerCase == <<"a", "b", "c", "d", "e", "f", "g", "h", "i", "j", "k", "l", "m",
               "n", "o", "p", "q", "r", "s", "t", "u", "v", "w", "x", "y", "z">>
UpperCase == <<"A", "B", "C", "D", "E", "F", "G", "H", "I", "J", "K", "L", "M",
               "N", "O", "P", "Q", "R", "S", "T", "U", "V", "W", "X", "Y", "Z">>
AsciiUpperChar(c) ==
    IF \E i \in 1 .. Len(LowerCase) : LowerCase[i] = c
    THEN UpperCase[CHOOSE i \in 1 .. Len(LowerCase) : LowerCase[i] = c]
    ELSE c
to_ascii_uppercase(str) == [i \in 1 .. Len(str) |-> AsciiUpperChar(str[i])]

Order_from_str_CaseSensitive(val) ==
    IF val = <<"A", "S", "C">> THEN Some("Asc")
    ELSE IF val = <<"D", "E", "S", "C">> THEN Some("Desc")
    ELSE None

\* impl FromStr for Order
Order_from_str(val) ==
    LET up == to_ascii_uppercase(val)
    IN  IF up = <<"A", "S", "C">> THEN Some("Asc")
        ELSE IF up = <<"D", "E", "S", "C">> THEN Some("Desc")
        ELSE None

\* QueryFilter::get_order: val.parse().unwrap_or(Order::None)
get_order(env) ==
    IF env.order.some
    THEN LET r == Order_from_str(env.order.val) IN IF r.some THEN r.val ELSE "None"
    ELSE "None"

\* Order::as_str and Order::to_seaquery
Order_as_str(o) == IF o = "Desc" THEN "DESC" ELSE "ASC"
Order_to_seaquery(o) == IF o = "Desc" THEN "Desc" ELSE "Asc"

\* `x as u64` for an i32 x: sign extension.  The 64 bits are kept as the
\* upper 33 bits (all zeros or all ones) and the lower 31 bits.
CastU64(x) ==
    IF x >= 0 THEN [high33 |-> "zeros", low31 |-> x]
    ELSE [high33 |-> "ones", low31 |-> (x + MaxI32) + 1]

\* the statement apply_filters leaves: Query::select() / Query::delete() with
\* the clauses attached; a panic in get_limit unwinds out of apply_filters
StmtPanicked == [state |-> "panic"]

\* impl ApplyFilters for &mut SelectStatement: the outcomes
Select_apply_filters(env) ==
    LET offset == get_offset(env)
        order == get_order(env)
        sort == get_sort(env)
    IN  {IF limit.panic THEN StmtPanicked
         ELSE [state |-> "built", kind |-> "select",
               where |-> IF env.filter.some
                         THEN Some(MyFilters_to_cond(env.filter.val)) ELSE None,
               offset |-> Some(CastU64(offset)),
               limit |-> Some(CastU64(limit.val)),
               order_by |-> IF sort.some
                            THEN <<[col |-> sort.val, order |-> Order_to_seaquery(order)]>>
                            ELSE <<>>] :
         limit \in get_limit(env, offset)}

Delete_apply_filters_UsesStart(env) ==
    LET order == get_order(env)
        sort == get_sort(env)
    IN  {IF limit.panic THEN StmtPanicked
         ELSE [state |-> "built", kind |-> "delete",
               where |-> IF env.filter.some
                         THEN Some(MyFilters_to_cond(env.filter.val)) ELSE None,
               offset |-> None,
               limit |-> Some(CastU64(limit.val)),
               order_by |-> IF sort.some
                            THEN <<[col |-> sort.val, order |-> Order_to_seaquery(order)]>>
                            ELSE <<>>] :
         limit \in get_limit(env, get_offset(env))}

\* impl ApplyFilters for &mut DeleteStatement: the outcomes
Delete_apply_filters(env) ==
    LET order == get_order(env)
        sort == get_sort(env)
    IN  {IF limit.panic THEN StmtPanicked
         ELSE [state |-> "built", kind |-> "delete",
               where |-> IF env.filter.some
                         THEN Some(MyFilters_to_cond(env.filter.val)) ELSE None,
               offset |-> None,
               limit |-> Some(CastU64(limit.val)),
               order_by |-> IF sort.some
                            THEN <<[col |-> sort.val, order |-> Order_to_seaquery(order)]>>
                            ELSE <<>>] :
         limit \in get_limit(env, 0)}

(***************************************************************************)
(* SpecQuery: an envelope, as a request may supply it, is read through its *)
(* accessors and applied to a fresh select or delete statement.            *)
(***************************************************************************)
I32Sample == {MinI32, -1, 0, 1, 10, 100, MaxI32}
SortSample == {"name", "age", "score", "Age", "ag"}
OrderSample ==
    {<<"A", "S", "C">>, <<"a", "s", "c">>, <<"d", "e", "s", "c">>,
     <<"D", "e", "s", "c">>, <<"u", "p">>}
GroupSample ==
    {[name |-> None, age |-> None, score |-> None],
     [name |-> Some(<<[op |-> "Contains", text |-> <<"J", "o", "h", "n">>]>>),
      age |-> Some(<<[op |-> "GreaterThanEqual", val |-> 20],
                     [op |-> "LesserThan", val |-> 50]>>),
      score |-> None]}

OptionOf(S) == {None} \cup {Some(x) : x \in S}

InitQuery ==
    /\ envelope \in [start : OptionOf(I32Sample), end : OptionOf(I32Sample),
                     sort : OptionOf(SortSample), order : OptionOf(OrderSample),
                     filter : OptionOf(GroupSample)]
    /\ call = NoCall
    /\ stmt = NoStmt
    /\ domain = "group"
    /\ fset = FilterSet_default
    /\ ret = NoRet
    /\ query = <<>>
    /\ de = NoDe

GetOffset ==
    /\ call' = [fn |-> "get_offset", result |-> get_offset(envelope)]
    /\ UNCHANGED <<domain, fset, ret, query, de, envelope, stmt>>

GetLimit ==
    /\ \E offset \in I32Sample : \E out \in get_limit(envelope, offset) :
         call' = [fn |-> "get_limit", offset |-> offset, result |-> out]
    /\ UNCHANGED <<domain, fset, ret, query, de, envelope, stmt>>

GetSort ==
    /\ call' = [fn |-> "get_sort", result |-> get_sort(envelope)]
    /\ UNCHANGED <<domain, fset, ret, query, de, envelope, stmt>>

GetOrder ==
    /\ call' = [fn |-> "get_order", result |-> get_order(envelope)]
    /\ UNCHANGED <<domain, fset, ret, query, de, envelope, stmt>>

ApplySelect ==
    /\ stmt' \in Select_apply_filters(envelope)
    /\ UNCHANGED <<domain, fset, ret, query, de, envelope, call>>

ApplyDelete ==
    /\ stmt' \in Delete_apply_filters(envelope)
    /\ UNCHANGED <<domain, fset, ret, query, de, envelope, call>>

NextQuery == GetOffset \/ GetLimit \/ GetSort \/ GetOrder \/ ApplySelect \/ ApplyDelete

SpecQuery == InitQuery /\ [][NextQuery]_vars

(***************************************************************************)
(* Deserializing the envelope.  QueryFilter<MyFilters> derives Deserialize: *)
(* start, end, sort and order are top-level keys, the group's pairs come     *)
(* as filter[field][token]=value.  In the query a top-level pair has an      *)
(* empty token; a pair with a token is read as filter[field][token].         *)
(***************************************************************************)
Param(key, raw) == [field |-> key, token |-> "", raw |-> raw]

\* i32::from_str of a decimal string with an optional minus sign
ParseI32(raw) ==
    IF Len(raw) > 1 /\ raw[1] = "-"
    THEN LET n == ParseNumber(Tail(raw))
         IN  IF n.some /\ n.val <= MaxI32 THEN Some(0 - n.val) ELSE None
    ELSE LET n == ParseNumber(raw)
         IN  IF n.some /\ n.val <= MaxI32 THEN n ELSE None

\* the field names a request may put in sort, as text and as the string atom
\* the model keeps in envelope.sort
SortTexts ==
    <<[chars |-> <<"a", "g", "e">>, str |-> "age"],
      [chars |-> <<"n", "a", "m", "e">>, str |-> "name"],
      [chars |-> <<"i", "d">>, str |-> "id"]>>
StringOf(raw) ==
    SortTexts[CHOOSE i \in 1 .. Len(SortTexts) : SortTexts[i].chars = raw].str

\* the value of a top-level key (a key is supplied at most once)
ParamRaw(q, key) ==
    LET s == SelectSeq(q, LAMBDA p : p.token = "" /\ p.field = key)
    IN  IF s = <<>> THEN None ELSE Some(s[1].raw)

\* Option<i32> field: absent, parsed, or an error
OptionI32_deserialize(q, key) ==
    LET r == ParamRaw(q, key)
    IN  IF ~r.some THEN [ok |-> TRUE, val |-> None]
        ELSE IF ParseI32(r.val).some THEN [ok |-> TRUE, val |-> ParseI32(r.val)]
        ELSE [ok |-> FALSE]

\* Option<MyFilters> field: absent when no filter[..] pair is supplied
OptionGroup_deserialize(q) ==
    LET fp == SelectSeq(q, LAMBDA p : p.token # "")
    IN  IF fp = <<>> THEN {[ok |-> TRUE, val |-> None]}
        ELSE {IF r.ok THEN [ok |-> TRUE, val |-> Some(r.group)] ELSE [ok |-> FALSE] :
                 r \in MyFilters_from_str(fp)}

DeEnvelope(e) == [state |-> "done", ok |-> TRUE, envelope |-> e]

\* serde_querystring::from_str::<QueryFilter<MyFilters>>(.., ParseMode::Brackets)
QueryFilter_from_str(q) ==
    LET st == OptionI32_deserialize(q, "start")
        en == OptionI32_deserialize(q, "end")
        so == ParamRaw(q, "sort")
        ord == ParamRaw(q, "order")
    IN  {IF st.ok /\ en.ok /\ f.ok
         THEN DeEnvelope([start |-> st.val, end |-> en.val,
                          sort |-> IF so.some THEN Some(StringOf(so.val)) ELSE None,
                          order |-> ord, filter |-> f.val])
         ELSE DeErr :
            f \in OptionGroup_deserialize(q)}

(***************************************************************************)
(* SpecEnv: a request's query string is deserialized into an envelope,     *)
(* which is applied to a fresh select or delete statement.                 *)
(***************************************************************************)
ExampleEnvelope ==
    ExampleGroup \o
    <<Param("start", <<"1", "0">>), Param("end", <<"1", "0", "0">>),
      Param("sort", <<"a", "g", "e">>), Param("order", <<"D", "E", "S", "C">>)>>

\* the filter pairs of the example, any of them, in any order
EnvFilterPairs == {ExampleGroup[i] : i \in 1 .. Len(ExampleGroup)}
EnvFilterSeqs ==
    {s \in SeqsUpTo(EnvFilterPairs, Cardinality(EnvFilterPairs)) :
        \A i, j \in 1 .. Len(s) : i # j => s[i] # s[j]}

\* the top-level keys: each absent or one of a few values
OneParam(key, raws) == {<<>>} \cup {<<Param(key, raw)>> : raw \in raws}
EnvParamSeqs ==
    {st \o en \o so \o ord :
        st \in OneParam("start", {<<"1", "0">>, <<"x">>}),
        en \in OneParam("end", {<<"1", "0", "0">>}),
        so \in OneParam("sort", {<<"a", "g", "e">>, <<"i", "d">>}),
        ord \in OneParam("order", {<<"D", "E", "S", "C">>})}

InitEnv ==
    /\ query \in {f \o p : f \in EnvFilterSeqs, p \in EnvParamSeqs}
                    \cup {p \o f : f \in EnvFilterSeqs, p \in EnvParamSeqs}
    /\ domain = "envelope"
    /\ de = NoDe
    /\ envelope = NoEnvelope
    /\ fset = FilterSet_default
    /\ ret = NoRet
    /\ call = NoCall
    /\ stmt = NoStmt

DeserializeEnvelope ==
    /\ de = NoDe
    /\ \E r \in QueryFilter_from_str(query) :
          /\ de' = [state |-> "done", ok |-> r.ok]
          /\ envelope' = IF r.ok THEN r.envelope ELSE envelope
    /\ UNCHANGED <<domain, fset, ret, query, call, stmt>>

ApplyEnvelopeSelect ==
    /\ de.state = "done" /\ de.ok
    /\ stmt' \in Select_apply_filters(envelope)
    /\ UNCHANGED <<domain, fset, ret, query, de, envelope, call>>

ApplyEnvelopeDelete ==
    /\ de.state = "done" /\ de.ok
    /\ stmt' \in Delete_apply_filters(envelope)
    /\ UNCHANGED <<domain, fset, ret, query, de, envelope, call>>

NextEnv == DeserializeEnvelope \/ ApplyEnvelopeSelect \/ ApplyEnvelopeDelete

SpecEnv == InitEnv /\ [][NextEnv]_vars

(***************************************************************************)
(* SpecGroup: a filter-group built in code, its fields absent, empty or    *)
(* holding operators, is compiled and attached with apply_conds.           *)
(***************************************************************************)
\* impl ApplyConds for &mut SelectStatement / &mut DeleteStatement, on a
\* fresh statement: cond_where(filters.to_cond())
apply_conds(kind, g) ==
    [state |-> "built", kind |-> kind,
     where |-> Some(MyFilters_to_cond(g)),
     offset |-> None, limit |-> None, order_by |-> <<>>]

NameSlots ==
    {None, Some(<<>>),
     Some(<<[op |-> "Contains", text |-> <<"a">>]>>),
     Some(<<[op |-> "StartsWith", text |-> <<"a">>],
            [op |-> "EndsWith", text |-> <<"%">>]>>)}
NumberSlots ==
    {None, Some(<<>>),
     Some(<<[op |-> "GreaterThanEqual", val |-> 0]>>),
     Some(<<[op |-> "GreaterThanEqual", val |-> 0],
            [op |-> "LesserThan", val |-> MaxVal]>>)}

InitGroup ==
    /\ envelope \in [start : {None}, end : {None}, sort : {None}, order : {None},
                     filter : {Some(g) : g \in [name : NameSlots, age : NumberSlots,
                                                 score : NumberSlots]}]
    /\ domain = "group"
    /\ fset = FilterSet_default
    /\ ret = NoRet
    /\ query = <<>>
    /\ de = NoDe
    /\ call = NoCall
    /\ stmt = NoStmt

GroupToCond ==
    /\ ret' = [fn |-> "group", group |-> envelope.filter.val,
               result |-> MyFilters_to_cond(envelope.filter.val)]
    /\ UNCHANGED <<domain, fset, query, de, envelope, call, stmt>>

ApplyCondsSelect ==
    /\ stmt' = apply_conds("select", envelope.filter.val)
    /\ UNCHANGED <<domain, fset, ret, query, de, envelope, call>>

ApplyCondsDelete ==
    /\ stmt' = apply_conds("delete", envelope.filter.val)
    /\ UNCHANGED <<domain, fset, ret, query, de, envelope, call>>

NextGroup == GroupToCond \/ ApplyCondsSelect \/ ApplyCondsDelete

SpecGroup == InitGroup /\ [][NextGroup]_vars

(***************************************************************************)
(* Spec: every operation that takes its input by shared reference, side by *)
(* side.  A behaviour either builds and compiles a filter set, or reads    *)
(* and applies an envelope, any number of times in any order.              *)
(***************************************************************************)
Init ==
    /\ \/ /\ domain \in Domains
          /\ envelope = NoEnvelope
       \/ /\ domain = "group"
          /\ envelope \in [start : OptionOf({-1, 10, MaxI32}),
                           end : OptionOf({-1, 100, MaxI32}),
                           sort : OptionOf({"age", "Age"}),
                           order : OptionOf({<<"d", "e", "s", "c">>}),
                           filter : OptionOf(GroupSample)]
    /\ fset = FilterSet_default
    /\ ret = NoRet
    /\ query = <<>>
    /\ de = NoDe
    /\ call = NoCall
    /\ stmt = NoStmt

Next ==
    \/ domain \in Domains /\ NextSet
    \/ domain = "group" /\ NextQuery
    \/ domain = "group" /\ envelope.filter.some /\ GroupToCond

Spec == Init /\ [][Next]_vars

(***************************************************************************)
(* What a compiled condition means for a column value v (SQL comparison on *)
(* the ordered scale), used to state what a condition selects.             *)
(***************************************************************************)
ColVals == -1 .. (MaxVal + 1)

EvalExpr(e, v) ==
    CASE e.kind = "cmp" ->
           (CASE e.op = "=" -> v = e.val
              [] e.op = "<>" -> v # e.val
              [] e.op = "<" -> v < e.val
              [] e.op = "<=" -> v <= e.val
              [] e.op = ">" -> v > e.val
              [] e.op = ">=" -> v >= e.val)
      [] e.kind = "in" -> \E i \in 1 .. Len(e.list) : e.list[i] = v

RECURSIVE Eval(_, _)
Eval(c, v) ==
    IF c.kind = "all"
    THEN \A i \in 1 .. Len(c.conds) : Eval(c.conds[i], v)
    ELSE EvalExpr(c, v)

\* SQL LIKE: % matches any run of characters, _ any one character, every
\* other pattern character itself.
RECURSIVE LikeMatch(_, _, _, _)
LikeMatch(pat, i, txt, j) ==
    IF i > Len(pat) THEN j > Len(txt)
    ELSE IF pat[i] = "%"
         THEN LikeMatch(pat, i + 1, txt, j)
              \/ (j <= Len(txt) /\ LikeMatch(pat, i, txt, j + 1))
         ELSE /\ j <= Len(txt)
              /\ (pat[i] = "_" \/ pat[i] = txt[j])
              /\ LikeMatch(pat, i + 1, txt, j + 1)

\* The rows of a table with the columns of the filter-group, and what a
\* condition means for one of them.
MaxText == 2
TextChars == {"a", "b", "%"}
Rows == [name : SeqsUpTo(TextChars, MaxText), age : ColVals, score : ColVals]

RECURSIVE EvalRow(_, _)
EvalRow(c, row) ==
    IF c.kind = "all"
    THEN \A i \in 1 .. Len(c.conds) : EvalRow(c.conds[i], row)
    ELSE IF c.kind = "like"
    THEN LikeMatch(c.pat, 1, row[c.col], 1) # c.neg
    ELSE EvalExpr(c, row[c.col])

\* the rows a statement selects (or deletes): all of them without a WHERE
Selected(st) ==
    IF st.where.some THEN {row \in Rows : EvalRow(st.where.val, row)} ELSE Rows

(***************************************************************************)
(* Claims about the condition compiler (SpecSet).                          *)
(***************************************************************************)

\* C1: in every temporal domain Before(x) compiles to col < x and After(x) to
\* col >= x, and the set built by pushing After(X) then Before(Y) is satisfied
\* by a column value v exactly when X <= v < Y (so by no value when X >= Y).
C1_HalfOpenInterval ==
    domain \in TemporalDomains =>
      /\ (ret.fn = "filter" /\ ret.arg[1].op = "Before") =>
            ret.result = Some([kind |-> "all", conds |->
                <<[kind |-> "cmp", col |-> Col, op |-> "<", val |-> ret.arg[1].val]>>])
      /\ (ret.fn = "filter" /\ ret.arg[1].op = "After") =>
            ret.result = Some([kind |-> "all", conds |->
                <<[kind |-> "cmp", col |-> Col, op |-> ">=", val |-> ret.arg[1].val]>>])
      /\ (ret.fn = "set" /\ Len(ret.arg) = 2
            /\ ret.arg[1].op = "After" /\ ret.arg[2].op = "Before") =>
            /\ ret.result.some
            /\ \A v \in ColVals :
                 Eval(ret.result.val, v) <=> (ret.arg[1].val <= v /\ v < ret.arg[2].val)

C1_Witness ==
    /\ domain = "datetime_tz"
    /\ ret.fn = "set"
    /\ ret.arg = <<[op |-> "After", val |-> 0], [op |-> "Before", val |-> 2]>>
    /\ ret.result.some
    /\ Eval(ret.result.val, 0) /\ Eval(ret.result.val, 1) /\ ~Eval(ret.result.val, 2)

\* C2: to_cond on a non-empty filter set of any domain yields the AND of
\* exactly one fragment per pushed operator instance, in push order, each
\* fragment being to_cond of that instance on the same column.
C2_OneFragmentPerInstance ==
    (ret.fn = "set" /\ Len(ret.arg) > 0) =>
      /\ ret.result.some
      /\ ret.result.val.kind = "all"
      /\ Len(ret.result.val.conds) = Len(ret.arg)
      /\ \A i \in 1 .. Len(ret.arg) :
           Some([kind |-> "all", conds |-> <<ret.result.val.conds[i]>>])
             = Filter_to_cond(domain, ret.arg[i], Col)

C2_Witness ==
    /\ ret.fn = "set"
    /\ Len(ret.arg) = 2
    /\ ret.arg[1] = ret.arg[2]
    /\ ret.result.some
    /\ Len(ret.result.val.conds) = 2
    /\ ret.result.val.conds[1] = ret.result.val.conds[2]

\* C3: to_cond on a filter set that holds no operator instances (called on
\* the set or through a filter-group slot) yields no predicate: the none
\* result, not a present but empty conjunction.
C3_EmptySetYieldsNone ==
    (ret.fn \in {"set", "slot_some", "slot_none"} /\ ret.arg = <<>>) => ret.result = None

(***************************************************************************)
(* Claims about deserialization (SpecDe).                                  *)
(***************************************************************************)
\* the token sets of the domains, as the interface states them
ClaimTokens(d) ==
    CASE d \in TemporalDomains -> {"before", "after", "eq", "neq"}
      [] d = "number" -> {"eq", "neq", "lt", "lte", "gt", "gte"}
      [] d = "string" -> {"contains", "notcontains", "startswith", "endswith"}
      [] d = "uuid" -> {"eq", "in"}

\* the operator instance one pair stands for, taken alone
InstanceOf(d, p) ==
    LET op == TokensOf(d)[p.token]
    IN  IF d = "string" THEN [op |-> op, text |-> p.raw]
        ELSE IF d = "uuid" /\ op = "In" THEN [op |-> op, list |-> <<ParseNumber(p.raw).val>>]
        ELSE [op |-> op, val |-> ParseNumber(p.raw).val]

\* the single expression one operator instance compiles to
Fragment(d, f) == Filter_to_cond(d, f, Col).val.conds[1]

Occurrences(q, fld, tok) == {i \in 1 .. Len(q) : q[i].field = fld /\ q[i].token = tok}
DistinctTokens(q) == \A i, j \in 1 .. Len(q) : q[i].token = q[j].token => i = j
WellFormed(d, raw) == d = "string" \/ ParseNumber(raw).some
TokenRank(d, op) ==
    CHOOSE i \in 1 .. Len(TokenOrder) :
        TokenOrder[i] \in DOMAIN TokensOf(d) /\ TokensOf(d)[TokenOrder[i]] = op

SampleDone == domain \in Domains /\ de.state = "done"

\* C4 (as stated): the deserialized set holds the operator instances in the
\* order the pairs occur in the input, and the compiled conjunction follows
\* that order.  Stated for inputs whose tokens are pairwise distinct.
C4_InputOrderPreserved ==
    (SampleDone /\ de.ok /\ DistinctTokens(query)) =>
      /\ Len(de.set) = Len(query)
      /\ \A i \in 1 .. Len(query) : de.set[i] = InstanceOf(domain, query[i])
      /\ ret.fn = "set" =>
           ret.result = Some([kind |-> "all", conds |->
               [i \in 1 .. Len(query) |-> Fragment(domain, InstanceOf(domain, query[i]))]])

\* C4 (amended): the deserialized set holds one operator instance per
\* distinct token, ordered by token (bytewise ascending) whatever the order
\* of the pairs in the input; every pair whose token occurs once is in the
\* set; compiling the set yields the conjunction in the set's order, so
\* key[lt]=100&key[gt]=50&key[eq]=75 compiles to
\* col = 75 AND col > 50 AND col < 100.
C4_TokenOrder ==
    (SampleDone /\ de.ok) =>
      /\ Len(de.set) = Cardinality(Keys(query))
      /\ \A i, j \in 1 .. Len(de.set) :
           i < j => TokenRank(domain, de.set[i].op) < TokenRank(domain, de.set[j].op)
      /\ \A i \in 1 .. Len(query) :
           Cardinality(Occurrences(query, "key", query[i].token)) = 1 =>
             \E j \in 1 .. Len(de.set) : de.set[j] = InstanceOf(domain, query[i])
      /\ ret.fn = "set" =>
           /\ ret.arg = de.set
           /\ ret.result = Some([kind |-> "all", conds |->
                  [i \in 1 .. Len(de.set) |-> Fragment(domain, de.set[i])]])
      /\ (ret.fn = "set" /\ domain = "number" /\ query = ExampleNumber) =>
           ret.result = Some([kind |-> "all", conds |->
               <<[kind |-> "cmp", col |-> Col, op |-> "=", val |-> 75],
                 [kind |-> "cmp", col |-> Col, op |-> ">", val |-> 50],
                 [kind |-> "cmp", col |-> Col, op |-> "<", val |-> 100]>>])

C4_Witness ==
    /\ domain = "number"
    /\ query = ExampleNumber
    /\ de.state = "done" /\ de.ok
    /\ de.set = <<[op |-> "Equals", val |-> 75], [op |-> "GreaterThan", val |-> 50],
                  [op |-> "LesserThan", val |-> 100]>>
    /\ ret.fn = "set"
    /\ ret.result.some /\ Len(ret.result.val.conds) = 3

C6_UnknownTokenRejected ==
    (SampleDone /\ \E i \in 1 .. Len(query) : query[i].token \notin ClaimTokens(domain)) =>
      de = DeErr

C6_Witness ==
    /\ domain = "string"
    /\ Len(query) = 2
    /\ query[1].token = "contains"
    /\ query[2].token = "lt"
    /\ de = DeErr

(***************************************************************************)
(* The filter-group.                                                       *)
(***************************************************************************)
FieldDomain(fld) == IF fld = "name" THEN "string" ELSE "number"
InvalidToken(p) == p.token \notin ClaimTokens(FieldDomain(p.field))
Malformed(p) == ~WellFormed(FieldDomain(p.field), p.raw)
GroupDone == domain = "group" /\ de.state = "done"

C8_LimitNeverBelowOne ==
    (call.fn = "get_limit") =>
        /\ ~call.result.panic
        /\ call.result.val >= 1
        /\ ~envelope.end.some => call.result.val = 10
        /\ (envelope.end.some /\ envelope.end.val <= call.offset) =>
               call.result.val = 1
        /\ (envelope.end.some /\ envelope.end.val > call.offset) =>
               /\ ~SubOverflows(envelope.end.val, call.offset)
               /\ call.result.val = envelope.end.val - call.offset

Sortable == {SORTABLE_FIELDS[i] : i \in 1 .. Len(SORTABLE_FIELDS)}

C10_UnknownSortIgnored ==
    /\ (call.fn = "get_sort") =>
          call.result = (IF envelope.sort.some /\ envelope.sort.val \in Sortable
                         THEN Some(envelope.sort.val) ELSE None)
    /\ (stmt.state = "built") =>
          IF envelope.sort.some /\ envelope.sort.val \in Sortable
          THEN Len(stmt.order_by) = 1 /\ stmt.order_by[1].col = envelope.sort.val
          ELSE stmt.order_by = <<>>

C10_Witness ==
    /\ envelope.sort = Some("Age")
    /\ envelope.order = Some(<<"d", "e", "s", "c">>)
    /\ call.fn = "get_sort"
    /\ call.result = None
    /\ stmt.state = "built"
    /\ stmt.order_by = <<>>

\* C11: get_order returns Asc for a case variant of "ASC", Desc for a case
\* variant of "DESC" and the no-explicit-order state otherwise, never an
\* error; that state renders as ascending in as_str and to_seaquery, so the
\* direction is descending exactly for the case variants of "DESC".
SameLetter(a, b) ==
    \/ a = b
    \/ \E i \in 1 .. Len(LowerCase) : {a, b} = {LowerCase[i], UpperCase[i]}

EqIgnoreAsciiCase(str, word) ==
    /\ Len(str) = Len(word)
    /\ \A i \in 1 .. Len(str) : SameLetter(str[i], word[i])

OrderIs(word) == envelope.order.some /\ EqIgnoreAsciiCase(envelope.order.val, word)

C11_OrderCaseInsensitive ==
    /\ (call.fn = "get_order") =>
          /\ call.result = (IF OrderIs(<<"A", "S", "C">>) THEN "Asc"
                            ELSE IF OrderIs(<<"D", "E", "S", "C">>) THEN "Desc"
                            ELSE "None")
          /\ Order_as_str(call.result) =
                (IF OrderIs(<<"D", "E", "S", "C">>) THEN "DESC" ELSE "ASC")
          /\ Order_to_seaquery(call.result) =
                (IF OrderIs(<<"D", "E", "S", "C">>) THEN "Desc" ELSE "Asc")
    /\ (stmt.state = "built" /\ stmt.order_by # <<>>) =>
          (stmt.order_by[1].order = "Desc") <=> OrderIs(<<"D", "E", "S", "C">>)

C11_Witness ==
    /\ envelope.order = Some(<<"D", "e", "s", "c">>)
    /\ call.fn = "get_order"
    /\ call.result = "Desc"
    /\ stmt.state = "built"
    /\ stmt.order_by # <<>>
    /\ stmt.order_by[1].order = "Desc"

\* C12: the LIMIT apply_filters puts on a select statement is get_limit's
\* value, never clamped to get_max_limit(): whenever end - start is greater
\* than get_max_limit() the applied LIMIT exceeds that maximum.
SelectApplied == stmt.state = "panic" \/ (stmt.state = "built" /\ stmt.kind = "select")

\* whether the mathematical a - b is greater than m (m >= 0)
DiffGreater(a, b, m) == a > b /\ (SubOverflows(a, b) \/ a - b > m)

C12_LimitNotClamped ==
    SelectApplied =>
        /\ (stmt.state = "built") =>
              \E out \in get_limit(envelope, get_offset(envelope)) :
                  /\ ~out.panic
                  /\ stmt.limit = Some([high33 |-> "zeros", low31 |-> out.val])
        /\ (envelope.end.some
              /\ DiffGreater(envelope.end.val, get_offset(envelope), get_max_limit)) =>
              /\ stmt.state = "built"
              /\ stmt.limit.val.high33 = "zeros"
              /\ stmt.limit.val.low31 > get_max_limit

(***************************************************************************)
(* Claims checked under SpecGroup.                                         *)
(***************************************************************************)

\* C13: the group condition is the AND of the set conditions of the fields
\* whose slot is present, in declared field order, absent fields omitted; a
\* group whose fields are all absent or empty is true of every row, so the
\* statement it is attached to selects what it selects with no WHERE.
Present(g) == SelectSeq(MyFilters_fields, LAMBDA f : g[f.name].some)
SetCondOf(g, f) == FilterSet_to_cond(f.domain, g[f.name].val, f.name).val
AllAbsentOrEmpty(g) ==
    \A i \in 1 .. Len(MyFilters_fields) :
        LET slot == g[MyFilters_fields[i].name]
        IN  ~slot.some \/ slot.val = <<>>

C13_GroupIsConjunction ==
    /\ (ret.fn = "group") =>
          LET g == ret.group
              c == ret.result
          IN  /\ c.kind = "all"
              /\ Len(c.conds) = Len(Present(g))
              /\ \A i \in 1 .. Len(c.conds) :
                    LET sc == SetCondOf(g, Present(g)[i])
                    IN  c.conds[i] = sc \/ sc.conds = <<c.conds[i]>>
              /\ \A row \in Rows :
                    EvalRow(c, row) <=>
                        \A i \in 1 .. Len(Present(g)) :
                            EvalRow(SetCondOf(g, Present(g)[i]), row)
              /\ AllAbsentOrEmpty(g) => \A row \in Rows : EvalRow(c, row)
    /\ (stmt.state = "built" /\ envelope.filter.some
          /\ AllAbsentOrEmpty(envelope.filter.val)) =>
          Selected(stmt) = Selected([stmt EXCEPT !.where = None])

C13_Witness ==
    /\ ret.fn = "group"
    /\ ret.group = [name |-> None, age |-> Some(<<>>), score |-> None]
    /\ Len(ret.result.conds) = 1
    /\ stmt.state = "built"
    /\ stmt.where.some
    /\ Selected(stmt) = Rows

(***************************************************************************)
(* Claims about apply_filters (SpecQuery).                                 *)
(***************************************************************************)

\* whether the unsigned 64-bit parameter u is the number n
U64Is(u, n) == u.high33 = "zeros" /\ u.low31 = n

\* the ORDER BY that get_sort and get_order call for
OrderByOf(env) ==
    IF get_sort(env).some
    THEN <<[col |-> get_sort(env).val, order |-> Order_to_seaquery(get_order(env))]>>
    ELSE <<>>

\* the WHERE that the filter group calls for
WhereOf(env) ==
    IF env.filter.some THEN Some(MyFilters_to_cond(env.filter.val)) ELSE None

\* C14: apply_filters on a select statement attaches WHERE exactly when the
\* filter group is present, always sets LIMIT to get_limit(get_offset()) and
\* OFFSET to get_offset() (LIMIT 10, OFFSET 0 with start and end absent),
\* and attaches ORDER BY exactly when get_sort() is some, on that field with
\* the direction resolved from order.
C14_SelectShape ==
    SelectApplied =>
        /\ stmt.state = "built"
        /\ stmt.where = WhereOf(envelope)
        /\ stmt.offset.some /\ U64Is(stmt.offset.val, get_offset(envelope))
        /\ stmt.limit.some
        /\ \E out \in get_limit(envelope, get_offset(envelope)) :
              ~out.panic /\ U64Is(stmt.limit.val, out.val)
        /\ (~envelope.start.some /\ ~envelope.end.some) =>
              U64Is(stmt.limit.val, 10) /\ U64Is(stmt.offset.val, 0)
        /\ stmt.order_by = OrderByOf(envelope)

\* C15: apply_filters on a delete statement never sets an OFFSET and sets
\* LIMIT to get_limit(0), that is max(end, 1) with end present and 10
\* otherwise, so start has no effect; WHERE and ORDER BY are attached as for
\* a select statement.
C15_DeleteIgnoresStart ==
    /\ \A st \in Delete_apply_filters(envelope) : st.state = "built"
    /\ (stmt.state = "built" /\ stmt.kind = "delete") =>
          /\ stmt.offset = None
          /\ stmt.limit.some
          /\ U64Is(stmt.limit.val,
                   IF envelope.end.some THEN Max(envelope.end.val, 1) ELSE 10)
          /\ stmt.where = WhereOf(envelope)
          /\ stmt.order_by = OrderByOf(envelope)

C15_Witness ==
    /\ envelope.start = Some(10)
    /\ envelope.end = Some(100)
    /\ stmt.state = "built"
    /\ stmt.kind = "delete"
    /\ stmt.offset = None
    /\ U64Is(stmt.limit.val, 100)

(***************************************************************************)
(* Claims checked under SpecEnv.                                           *)
(***************************************************************************)

\* C16: the example query string, deserialized and applied to a select
\* statement, gives WHERE name LIKE '%John%' AND (age >= 20 AND age < 50),
\* ORDER BY age DESC, LIMIT 90 OFFSET 10; in general the fields appear in the
\* WHERE clause in the group's field order, not in query-string order, and a
\* field with several operators forms one nested conjunction.
ExampleWhere ==
    [kind |-> "all",
     conds |-> <<[kind |-> "like", col |-> "name", neg |-> FALSE,
                  pat |-> <<"%", "J", "o", "h", "n", "%">>],
                 [kind |-> "all",
                  conds |-> <<[kind |-> "cmp", col |-> "age", op |-> ">=", val |-> 20],
                              [kind |-> "cmp", col |-> "age", op |-> "<", val |-> 50]>>]>>]

ChildField(ch) == IF ch.kind = "all" THEN ch.conds[1].col ELSE ch.col
FieldRank(fld) == CHOOSE i \in 1 .. Len(MyFilters_fields) : MyFilters_fields[i].name = fld
TokensFor(q, fld) ==
    {q[i].token : i \in {j \in 1 .. Len(q) : q[j].field = fld /\ q[j].token # ""}}

C16_EndToEnd ==
    (stmt.state = "built" /\ stmt.kind = "select") =>
        /\ (query = ExampleEnvelope) =>
              /\ stmt.where = Some(ExampleWhere)
              /\ stmt.order_by = <<[col |-> "age", order |-> "Desc"]>>
              /\ U64Is(stmt.limit.val, 90)
              /\ U64Is(stmt.offset.val, 10)
        /\ stmt.where.some =>
              LET c == stmt.where.val
              IN  /\ \A i, j \in 1 .. Len(c.conds) :
                        i < j => FieldRank(ChildField(c.conds[i]))
                                    < FieldRank(ChildField(c.conds[j]))
                  /\ \A k \in 1 .. Len(MyFilters_fields) :
                        LET fld == MyFilters_fields[k].name
                            n == Cardinality(TokensFor(query, fld))
                            chs == {i \in 1 .. Len(c.conds) : ChildField(c.conds[i]) = fld}
                        IN  /\ Cardinality(chs) = (IF n = 0 THEN 0 ELSE 1)
                            /\ \A i \in chs :
                                  IF n = 1 THEN c.conds[i].kind # "all"
                                  ELSE /\ c.conds[i].kind = "all"
                                       /\ Len(c.conds[i].conds) = n
                                       /\ \A m \in 1 .. n : c.conds[i].conds[m].col = fld

C16_Witness ==
    /\ query = ExampleEnvelope
    /\ stmt.state = "built"
    /\ stmt.kind = "select"
    /\ stmt.where = Some(ExampleWhere)
    /\ U64Is(stmt.limit.val, 90)

(***************************************************************************)
(* Claims about single operators and push (SpecSet).                       *)
(***************************************************************************)
FilterCall(d) == ret.fn = "filter" /\ domain = d
TheExpr == ret.result.val.conds[1]
IsOneExpr == ret.result.some /\ ret.result.val.kind = "all" /\ Len(ret.result.val.conds) = 1

\* C17: Contains(s) compiles to col LIKE '%'+s+'%', NotContains(s) to col NOT
\* LIKE '%'+s+'%', StartsWith(s) to col LIKE s+'%' and EndsWith(s) to col LIKE
\* '%'+s; the operand is in the pattern unchanged and exactly once.
C17_LikePatterns ==
    FilterCall("string") =>
        LET f == ret.arg[1]
            n == Len(f.text)
        IN  /\ IsOneExpr
            /\ TheExpr.kind = "like"
            /\ TheExpr.col = Col
            /\ TheExpr.neg = (f.op = "NotContains")
            /\ f.op \in {"Contains", "NotContains"} =>
                  /\ Len(TheExpr.pat) = n + 2
                  /\ TheExpr.pat[1] = "%" /\ TheExpr.pat[n + 2] = "%"
                  /\ SubSeq(TheExpr.pat, 2, n + 1) = f.text
            /\ f.op = "StartsWith" =>
                  /\ Len(TheExpr.pat) = n + 1
                  /\ TheExpr.pat[n + 1] = "%"
                  /\ SubSeq(TheExpr.pat, 1, n) = f.text
            /\ f.op = "EndsWith" =>
                  /\ Len(TheExpr.pat) = n + 1
                  /\ TheExpr.pat[1] = "%"
                  /\ SubSeq(TheExpr.pat, 2, n + 1) = f.text

C17_Witness ==
    /\ FilterCall("string")
    /\ ret.arg[1] = [op |-> "StartsWith", text |-> <<"a", "%">>]
    /\ TheExpr.pat = <<"a", "%", "%">>
    /\ ~TheExpr.neg

\* C18: for identifiers Equals(u) compiles to col = u and In(list) to a
\* membership test whose members are the elements of the list, in list
\* order, duplicates kept.
C18_UuidEqualsAndIn ==
    FilterCall("uuid") =>
        LET f == ret.arg[1]
        IN  /\ IsOneExpr
            /\ TheExpr.col = Col
            /\ f.op = "Equals" =>
                  TheExpr.kind = "cmp" /\ TheExpr.op = "=" /\ TheExpr.val = f.val
            /\ f.op = "In" =>
                  /\ TheExpr.kind = "in"
                  /\ Len(TheExpr.list) = Len(f.list)
                  /\ \A i \in 1 .. Len(f.list) : TheExpr.list[i] = f.list[i]

C18_Witness ==
    /\ FilterCall("uuid")
    /\ ret.arg[1] = [op |-> "In", list |-> <<1, 1>>]
    /\ TheExpr.kind = "in"
    /\ TheExpr.list = <<1, 1>>

\* C19: the six numeric operators compile to =, <>, <, <=, >, >= on the
\* operand, and to_cond on a single operator of any domain never returns
\* none.
NumberOp(op) ==
    CASE op = "Equals" -> "="
      [] op = "NotEquals" -> "<>"
      [] op = "LesserThan" -> "<"
      [] op = "LesserThanEqual" -> "<="
      [] op = "GreaterThan" -> ">"
      [] op = "GreaterThanEqual" -> ">="

Holds(v, op, n) ==
    CASE op = "Equals" -> v = n
      [] op = "NotEquals" -> v # n
      [] op = "LesserThan" -> v < n
      [] op = "LesserThanEqual" -> v <= n
      [] op = "GreaterThan" -> v > n
      [] op = "GreaterThanEqual" -> v >= n

C19_NumberComparisons ==
    /\ (ret.fn = "filter") => ret.result.some
    /\ FilterCall("number") =>
          LET f == ret.arg[1]
          IN  /\ IsOneExpr
              /\ TheExpr = [kind |-> "cmp", col |-> Col, op |-> NumberOp(f.op), val |-> f.val]
              /\ \A v \in ColVals : Eval(ret.result.val, v) <=> Holds(v, f.op, f.val)

C19_Witness ==
    /\ FilterCall("number")
    /\ ret.arg[1] = [op |-> "LesserThanEqual", val |-> 1]
    /\ TheExpr.op = "<="
    /\ Eval(ret.result.val, 1)
    /\ ~Eval(ret.result.val, 2)

\* C20: starting from the default set, every push appends its operator
\* instance after the entries already there, equal or same-operator
\* instances included, and changes none of them; push never fails; and
\* is_empty() is true exactly when nothing has been pushed.
PushAppends ==
    \A value \in FilterOf(domain) :
        LET after == FilterSet_push(fset, value)
        IN  /\ Len(after) = Len(fset) + 1
            /\ after[Len(after)] = value
            /\ SubSeq(after, 1, Len(fset)) = fset
            /\ ~FilterSet_is_empty(after)

C20_PushAppends ==
    /\ [](PushAppends /\ (FilterSet_is_empty(fset) <=> Len(fset) = 0))
    /\ [][fset' # fset =>
            /\ Len(fset') = Len(fset) + 1
            /\ SubSeq(fset', 1, Len(fset)) = fset
            /\ fset'[Len(fset')] \in FilterOf(domain)]_vars

C20_Witness ==
    /\ Len(fset) = 2
    /\ fset[1] = fset[2]
    /\ ~FilterSet_is_empty(fset)
    /\ stmt = NoStmt /\ de = NoDe

(***************************************************************************)
(* Claims checked under Spec.                                              *)
(***************************************************************************)

\* C21: compiling and shaping are deterministic and read-only: to_cond called
\* again on the same operator, set or group gives the same predicate, an
\* envelope applied again to a fresh statement of the same kind gives the
\* same statement, an accessor called again gives the same value, and none
\* of them changes the filter set, the filter-group or the envelope.  (An
\* overflowing subtraction has one outcome per build, a panic or the wrapped
\* value; a panic is compared with nothing.)
SameToCondCall ==
    /\ ret.fn # "none"
    /\ ret'.fn = ret.fn
    /\ IF ret.fn = "group" THEN ret'.group = ret.group ELSE ret'.arg = ret.arg

SameAccessorCall ==
    /\ call.fn # "none"
    /\ call'.fn = call.fn
    /\ (call.fn = "get_limit") =>
          /\ call'.offset = call.offset
          /\ ~call.result.panic /\ ~call'.result.panic

SameApply ==
    /\ stmt.state = "built"
    /\ stmt'.state = "built"
    /\ stmt'.kind = stmt.kind

Operated == ret' # ret \/ call' # call \/ stmt' # stmt

C22_LimitWithoutOverflow ==
    (call.fn = "get_limit" /\ call.offset = get_offset(envelope) /\ envelope.end.some) =>
        /\ ~call.result.panic
        /\ call.result.val \in 1 .. MaxI32
        /\ IF envelope.end.val <= call.offset
           THEN call.result.val = 1
           ELSE /\ ~SubOverflows(envelope.end.val, call.offset)
                /\ call.result.val = envelope.end.val - call.offset

\* C23: the OFFSET and LIMIT that apply_filters puts on a select statement
\* are numerically get_offset() and get_limit(get_offset()): the conversion
\* from i32 to the statement's u64 parameters preserves the value, a
\* negative start included.
C23_CastPreservesValue ==
    (stmt.state = "built" /\ stmt.kind = "select") =>
        /\ stmt.offset.val.high33 = "zeros"
        /\ stmt.offset.val.low31 = get_offset(envelope)
        /\ stmt.limit.val.high33 = "zeros"
        /\ \E out \in get_limit(envelope, get_offset(envelope)) :
              ~out.panic /\ stmt.limit.val.low31 = out.val

\* C24: the column of every ORDER BY that apply_filters attaches, to a select
\* or a delete statement, is an element of SORTABLE_FIELDS; sort text that is
\* not in the list never reaches the statement.
C24_OrderByColumnIsSortable ==
    (stmt.state = "built") =>
        /\ \A i \in 1 .. Len(stmt.order_by) :
              \E k \in 1 .. Len(SORTABLE_FIELDS) : stmt.order_by[i].col = SORTABLE_FIELDS[k]
        /\ (envelope.sort.some
              /\ \A k \in 1 .. Len(SORTABLE_FIELDS) : SORTABLE_FIELDS[k] # envelope.sort.val) =>
              \A i \in 1 .. Len(stmt.order_by) : stmt.order_by[i].col # envelope.sort.val

C24_Witness ==
    /\ envelope.sort = Some("ag")
    /\ stmt.state = "built"
    /\ stmt.kind = "delete"
    /\ stmt.order_by = <<>>

(***************************************************************************)
(* Claims about the text patterns (SpecSet).                               *)
(***************************************************************************)
Texts == SeqsUpTo(TextChars, MaxText)
IsSubstring(str, txt) ==
    \E i \in 0 .. (Len(txt) - Len(str)) : SubSeq(txt, i + 1, i + Len(str)) = str
IsPrefix(str, txt) == Len(str) <= Len(txt) /\ SubSeq(txt, 1, Len(str)) = str
IsSuffix(str, txt) ==
    Len(str) <= Len(txt) /\ SubSeq(txt, Len(txt) - Len(str) + 1, Len(txt)) = str
IsWildcard(c) == c = "%" \/ c = "_"

\* C25: the pattern built by Contains, NotContains, StartsWith and EndsWith
\* treats the operand as literal text, wildcard characters in it included:
\* wildcards occur only at the end(s) the operator adds, so Contains(s)
\* matches exactly the values that contain s, StartsWith(s) those that begin
\* with s and EndsWith(s) those that end with s.
C25_OperandIsLiteral ==
    FilterCall("string") =>
        LET f == ret.arg[1]
            pat == TheExpr.pat
            first == IF f.op = "StartsWith" THEN 1 ELSE 2
            last == IF f.op = "EndsWith" THEN Len(pat) ELSE Len(pat) - 1
        IN  /\ \A i \in first .. last : ~IsWildcard(pat[i])
            /\ \A txt \in Texts :
                  (LikeMatch(pat, 1, txt, 1) # TheExpr.neg) <=>
                      CASE f.op = "Contains" -> IsSubstring(f.text, txt)
                        [] f.op = "NotContains" -> ~IsSubstring(f.text, txt)
                        [] f.op = "StartsWith" -> IsPrefix(f.text, txt)
                        [] f.op = "EndsWith" -> IsSuffix(f.text, txt)

====
